---- MODULE Spec2Model ----
(***************************************************************************)
(* A model of the plugwise package: the field codec and message framing of *)
(* plugwise/protocol.py and the Stick / Circle classes of plugwise/api.py. *)
(*                                                                         *)
(* A byte string is a sequence of one-byte tokens.  Printable bytes are    *)
(* written as themselves ("0", "A", "-"); the control bytes \x05, \x03,    *)
(* \r and \n are written "x05", "x03", "CR" and "LF".                      *)
(***************************************************************************)
EXTENDS Integers, Sequences, FiniteSets, TLC

(***************************************************************************)
(* Bounds of the model.                                                    *)
(***************************************************************************)
\* readline calls one expect_response call may make before the model stops
MaxReads == 3
\* Circle operations one run of the client program may call
MaxOps == 2

(***************************************************************************)
(* Bytes and hexadecimal text.                                             *)
(***************************************************************************)
HexDigits == <<"0","1","2","3","4","5","6","7","8","9","A","B","C","D","E","F">>

LowerHex == <<"a","b","c","d","e","f">>

Whitespace == {" ", "LF", "CR"}

IsUpperHex(c) == \E i \in 1..16 : HexDigits[i] = c

IsHexChar(c) == IsUpperHex(c) \/ \E i \in 1..6 : LowerHex[i] = c

\* the value of one hexadecimal digit, either case
HexVal(c) ==
    IF IsUpperHex(c) THEN (CHOOSE i \in 1..16 : HexDigits[i] = c) - 1
    ELSE (CHOOSE i \in 1..6 : LowerHex[i] = c) + 9

\* ord() of the bytes a request body can hold
Ord(c) ==
    IF IsUpperHex(c)
    THEN (IF HexVal(c) < 10 THEN 48 + HexVal(c) ELSE 55 + HexVal(c))
    ELSE IF IsHexChar(c) THEN 87 + HexVal(c)
    ELSE IF c = "-" THEN 45
    ELSE IF c = " " THEN 32
    ELSE IF c = "LF" THEN 10
    ELSE IF c = "CR" THEN 13
    ELSE IF c = "x05" THEN 5
    ELSE IF c = "x03" THEN 3
    ELSE IF c = "x" THEN 120
    ELSE IF c = "G" THEN 71
    ELSE 90

\* str.upper() of one byte
UpperChar(c) ==
    IF \E i \in 1..6 : LowerHex[i] = c
    THEN HexDigits[(CHOOSE i \in 1..6 : LowerHex[i] = c) + 10]
    ELSE IF c = "x" THEN "X"
    ELSE IF c = "g" THEN "G"
    ELSE c

Upper(s) == [i \in 1..Len(s) |-> UpperChar(s[i])]

Drop(s, n) == IF n >= Len(s) THEN <<>> ELSE SubSeq(s, n + 1, Len(s))

Take(s, n) == IF n >= Len(s) THEN s ELSE SubSeq(s, 1, n)

RECURSIVE Concat(_)
\* ''.join(parts)
Concat(parts) ==
    IF parts = <<>> THEN <<>> ELSE Head(parts) \o Concat(Tail(parts))

RECURSIVE SumSeq(_)
SumSeq(ns) == IF ns = <<>> THEN 0 ELSE Head(ns) + SumSeq(Tail(ns))

RECURSIVE HexDigitsOf(_)
\* the hexadecimal digits of n >= 0, most significant first, no padding
HexDigitsOf(n) ==
    IF n < 16 THEN <<HexDigits[n + 1]>>
    ELSE HexDigitsOf(n \div 16) \o <<HexDigits[(n % 16) + 1]>>

RECURSIVE ZeroPad(_, _)
ZeroPad(s, width) == IF Len(s) >= width THEN s ELSE ZeroPad(<<"0">> \o s, width)

\* "%0<width>X" % n : the sign counts towards the width, the zeros follow it
FormatHex(n, width) ==
    IF n >= 0 THEN ZeroPad(HexDigitsOf(n), width)
    ELSE <<"-">> \o ZeroPad(HexDigitsOf(0 - n), width - 1)

RECURSIVE StripLeft(_)
StripLeft(s) ==
    IF s # <<>> /\ Head(s) \in Whitespace THEN StripLeft(Tail(s)) ELSE s

RECURSIVE StripRight(_)
StripRight(s) ==
    IF s # <<>> /\ s[Len(s)] \in Whitespace
    THEN StripRight(SubSeq(s, 1, Len(s) - 1)) ELSE s

RECURSIVE HexNumber(_)
\* the number a non-empty run of hexadecimal digits denotes
HexNumber(s) ==
    IF s = <<>> THEN 0
    ELSE HexNumber(SubSeq(s, 1, Len(s) - 1)) * 16 + HexVal(s[Len(s)])

AllHex(s) == \A i \in 1..Len(s) : IsHexChar(s[i])

RECURSIVE StripZeros(_)
StripZeros(s) ==
    IF Len(s) > 1 /\ Head(s) = "0" THEN StripZeros(Tail(s)) ELSE s

\* the digits of int(val, 16) once whitespace, sign and prefix are gone
ParseDigits(neg, d) ==
    IF d = <<>> \/ ~AllHex(d) THEN [ok |-> FALSE, neg |-> FALSE, digits |-> <<>>]
    ELSE [ok |-> TRUE, neg |-> neg /\ \E i \in 1..Len(d) : d[i] # "0",
          digits |-> StripZeros(Upper(d))]

\* int(val, 16) once whitespace and sign are gone: one 0x prefix may follow
ParseUnsigned(neg, u) ==
    IF Len(u) >= 2 /\ u[1] = "0" /\ u[2] \in {"x", "X"}
    THEN ParseDigits(neg, Drop(u, 2)) ELSE ParseDigits(neg, u)

\* int(val, 16) once whitespace is gone: one sign may lead
ParseSigned(t) ==
    IF t # <<>> /\ Head(t) \in {"-", "+"}
    THEN ParseUnsigned(Head(t) = "-", Tail(t)) ELSE ParseUnsigned(FALSE, t)

\* int(val, 16): surrounding whitespace, one sign and one 0x prefix are
\* accepted; anything else but hexadecimal digits is a ValueError.  The
\* number is given by its sign and its digits, upper case and without
\* leading zeros, because it may exceed the integers of the model checker.
ParseInt16(val) == ParseSigned(StripRight(StripLeft(val)))

\* a parsed number of at most seven digits, as an integer
Small(p) == IF p.neg THEN 0 - HexNumber(p.digits) ELSE HexNumber(p.digits)

\* binascii.unhexlify(val): an even number of hexadecimal digits and
\* nothing else, or a TypeError
CanUnhexlify(val) == Len(val) % 2 = 0 /\ AllHex(val)

(***************************************************************************)
(* crc_fun: CRC-16, polynomial 0x11021, no reflection, initial value 0,    *)
(* no final xor.                                                           *)
(***************************************************************************)
RECURSIVE BitXor(_, _)
BitXor(a, b) ==
    IF a = 0 THEN b
    ELSE IF b = 0 THEN a
    ELSE (((a % 2) + (b % 2)) % 2) + 2 * BitXor(a \div 2, b \div 2)

\* x with the bit of weight w inverted
FlipBit(x, w) == IF (x \div w) % 2 = 1 THEN x - w ELSE x + w

\* x xor 0x1021, the low 16 bits of the polynomial
XorPoly(x) == FlipBit(FlipBit(FlipBit(x, 4096), 32), 1)

RECURSIVE CrcShift(_, _)
\* k rounds of the 16-bit shift register
CrcShift(crc, k) ==
    IF k = 0 THEN crc
    ELSE IF crc >= 32768
    THEN CrcShift(XorPoly((crc * 2) % 65536), k - 1)
    ELSE CrcShift(crc * 2, k - 1)

\* the byte is xored into the high byte of the register
CrcByte(crc, byte) ==
    CrcShift((BitXor(crc \div 256, byte) * 256) + (crc % 256), 8)

RECURSIVE CrcFrom(_, _)
\* the register after the bytes of s, starting from crc
CrcFrom(crc, s) ==
    IF crc \in 0..65535 /\ s # <<>>
    THEN CrcFrom(CrcByte(crc, Ord(Head(s))), Tail(s))
    ELSE crc

\* a variant of crc_fun whose register starts at 0xFFFF
crc_funInitOnes(s) == CrcFrom(65535, s)

\* crcmod.mkCrcFun(0x11021, rev=False, initCrc=0x0000, xorOut=0x0000)
crc_fun(s) == CrcFrom(0, s)

(***************************************************************************)
(* Values.  Every value is a record of the same shape, so that any two can *)
(* be compared: t names the Python type, c holds its integer components    *)
(* and s its text.                                                         *)
(***************************************************************************)
IntV(n) == [t |-> "int", c |-> <<n>>, s |-> <<>>]

\* the int a parse yields: IntV when it has at most seven digits, its sign
\* and digits otherwise
IntOf(p) ==
    IF Len(p.digits) <= 7 THEN [t |-> "int", c |-> <<Small(p)>>, s |-> <<>>]
    ELSE [t |-> "int", c |-> <<IF p.neg THEN 0 - 1 ELSE 1>>, s |-> p.digits]

StrV(s) == [t |-> "str", c |-> <<>>, s |-> s]

NoneV == [t |-> "None", c |-> <<>>, s |-> <<>>]

\* True and False; True == 1 holds in Python
BoolV(b) == [t |-> "bool", c |-> <<IF b THEN 1 ELSE 0>>, s |-> <<>>]

\* an attribute no statement has assigned yet
Unset == [t |-> "unset", c |-> <<>>, s |-> <<>>]

\* struct.unpack("!f", bytes): a float, named by the hexadecimal digits of
\* the four bytes of its IEEE-754 big-endian encoding
FloatV(hex) == [t |-> "float", c |-> <<>>, s |-> hex]

\* datetime.datetime.fromtimestamp(n), n an int value
TimestampV(n) == [t |-> "datetime.fromtimestamp", c |-> n.c, s |-> n.s]

\* datetime.datetime(y, mo, d, h, mi)
DateTimeV(y, mo, d, h, mi) ==
    [t |-> "datetime", c |-> <<y, mo, d, h, mi>>, s |-> <<>>]

\* datetime.time(h, mi, sec)
TimeV(h, mi, sec) == [t |-> "time", c |-> <<h, mi, sec>>, s |-> <<>>]

PLUGWISE_EPOCH == 2000

LOGADDR_OFFSET == 278528

IsLeap(y) == (y % 4 = 0 /\ y % 100 # 0) \/ y % 400 = 0

DaysInMonth(y, m) ==
    IF m = 2 THEN (IF IsLeap(y) THEN 29 ELSE 28)
    ELSE IF m \in {4, 6, 9, 11} THEN 30 ELSE 31

\* the arguments datetime.datetime(...) accepts; others are a ValueError
ValidDateTime(y, mo, d, h, mi) ==
    /\ y \in 1..9999 /\ mo \in 1..12
    /\ d >= 1 /\ d <= DaysInMonth(y, mo)
    /\ h \in 0..23 /\ mi \in 0..59

\* the arguments datetime.time(...) accepts; others are a ValueError
ValidTime(h, mi, sec) == h \in 0..23 /\ mi \in 0..59 /\ sec \in 0..59

(***************************************************************************)
(* Fields: BaseType and its subclasses.  A field object is a record of its *)
(* class (kind), its length attribute, its value attribute and, for a      *)
(* CompositeType, its contents.                                            *)
(***************************************************************************)
Field(kind, length, val) ==
    [kind |-> kind, length |-> length, val |-> val, kids |-> <<>>]

IsComposite(f) == f.kind \in {"DateTime", "Time"}

\* DateTime.__init__
DateTime(year, month, minutes) ==
    [kind |-> "DateTime", length |-> 0, val |-> Unset,
     kids |-> << Field("Year2k", 2, IntV(year - PLUGWISE_EPOCH)),
                 Field("Int", 2, IntV(month)),
                 Field("Int", 4, IntV(minutes)) >>]

\* Time.__init__
Time(hour, minute, second) ==
    [kind |-> "Time", length |-> 0, val |-> Unset,
     kids |-> << Field("Int", 2, IntV(hour)),
                 Field("Int", 2, IntV(minute)),
                 Field("Int", 2, IntV(second)) >>]

\* BaseType.__len__ and CompositeType.__len__
FieldLen(f) ==
    IF IsComposite(f)
    THEN SumSeq([i \in 1..Len(f.kids) |-> f.kids[i].length])
    ELSE f.length

\* Int.serialize, and BaseType.serialize for the other scalars
ScalarSerialize(f) ==
    IF f.kind \in {"Int", "Year2k", "LogAddr", "UnixTimestamp"}
    THEN FormatHex(f.val.c[1], f.length)
    ELSE f.val.s

\* CompositeType.serialize over the contents, or the scalar's own serialize
FieldSerialize(f) ==
    IF IsComposite(f)
    THEN Concat([i \in 1..Len(f.kids) |-> ScalarSerialize(f.kids[i])])
    ELSE ScalarSerialize(f)

\* LogAddr.unserialize's (value - LOGADDR_OFFSET) / 32 for a parsed number:
\* Python 2's "/" on ints is floor division.  A number of eight digits is
\* split at 2^16, since 65536 * hi is a multiple of 32.
LogAddrValue(p) ==
    IF Len(p.digits) <= 7 THEN (Small(p) - LOGADDR_OFFSET) \div 32
    ELSE ((HexNumber(SubSeq(p.digits, 1, Len(p.digits) - 4))
              - (LOGADDR_OFFSET \div 65536)) * 2048)
         + ((HexNumber(SubSeq(p.digits, Len(p.digits) - 3, Len(p.digits)))
              - (LOGADDR_OFFSET % 65536)) \div 32)

\* Int.unserialize and the unserialize of its subclasses, given what
\* int(val, 16) yields
IntUnserialize(f, p) ==
    IF ~p.ok THEN [exc |-> "ValueError", f |-> f]
    ELSE [exc |-> "none",
          f |-> [f EXCEPT !.val =
                   CASE f.kind = "Int" -> IntOf(p)
                     [] f.kind = "Year2k" -> IntV(Small(p) + PLUGWISE_EPOCH)
                     [] f.kind = "LogAddr" -> IntV(LogAddrValue(p))
                     [] f.kind = "UnixTimestamp" -> TimestampV(IntOf(p))]]

\* a variant of unserialize in which a String assigns its value only while
\* it is None
ScalarUnserializeOnce(f, val) ==
    IF f.kind = "String"
    THEN [exc |-> "none", f |-> IF f.val = NoneV THEN [f EXCEPT !.val = StrV(val)] ELSE f]
    ELSE IF f.kind = "Float"
    THEN (IF CanUnhexlify(val)
          THEN [exc |-> "none", f |-> [f EXCEPT !.val = FloatV(Upper(val))]]
          ELSE [exc |-> "TypeError", f |-> f])
    ELSE IntUnserialize(f, ParseInt16(val))

\* unserialize of the scalar classes: the exception raised, if any, and the
\* field afterwards
ScalarUnserialize(f, val) ==
    IF f.kind = "String" THEN [exc |-> "none", f |-> [f EXCEPT !.val = StrV(val)]]
    ELSE IF f.kind = "Float"
    THEN (IF CanUnhexlify(val)
          THEN [exc |-> "none", f |-> [f EXCEPT !.val = FloatV(Upper(val))]]
          ELSE [exc |-> "TypeError", f |-> f])
    ELSE IntUnserialize(f, ParseInt16(val))

RECURSIVE CompositeKids(_, _, _)

\* one turn of the loop of CompositeType.unserialize: r is what
\* p.unserialize(myval) did
CompositeStep(kids, val, i, r) ==
    IF r.exc # "none" THEN [exc |-> r.exc, kids |-> kids, rest |-> val]
    ELSE CompositeKids([kids EXCEPT ![i] = r.f], Drop(val, kids[i].length), i + 1)

\* CompositeType.unserialize: the loop over self.contents from index i on
CompositeKids(kids, val, i) ==
    IF i > Len(kids) THEN [exc |-> "none", kids |-> kids, rest |-> val]
    ELSE CompositeStep(kids, val, i,
                       ScalarUnserialize(kids[i], Take(val, kids[i].length)))

\* a variant of the split that takes the hours of the whole month
DateTimeSplitWholeHours(minutes) ==
    [days |-> (minutes \div 60) \div 24,
     hours |-> minutes \div 60,
     minutes |-> minutes - ((minutes \div 60) * 60)]

\* the day, hour and minute DateTime.unserialize computes from minutes
DateTimeSplit(minutes) ==
    [days |-> (minutes \div 60) \div 24,
     hours |-> (minutes \div 60) - (((minutes \div 60) \div 24) * 24),
     minutes |-> minutes - (((((minutes \div 60) \div 24) * 24) * 60)
                  + (((minutes \div 60) - (((minutes \div 60) \div 24) * 24)) * 60))]

\* the end of DateTime.unserialize: datetime.datetime(year, month, days,
\* hours, minutes) is assigned to self.value, or raises
DateTimeValue(g, year, month, dhm) ==
    IF ~ValidDateTime(year, month, dhm.days, dhm.hours, dhm.minutes)
    THEN [exc |-> "ValueError", f |-> g]
    ELSE [exc |-> "none",
          f |-> [g EXCEPT !.val =
                   DateTimeV(year, month, dhm.days, dhm.hours, dhm.minutes)]]

\* DateTime.unserialize after CompositeType.unserialize, which did r
DateTimeAfter(f, r) ==
    IF r.exc # "none" THEN [exc |-> r.exc, f |-> [f EXCEPT !.kids = r.kids]]
    ELSE DateTimeValue([f EXCEPT !.kids = r.kids], r.kids[1].val.c[1],
                       r.kids[2].val.c[1], DateTimeSplit(r.kids[3].val.c[1]))

\* DateTime.unserialize
DateTimeUnserialize(f, val) == DateTimeAfter(f, CompositeKids(f.kids, val, 1))

\* Time.unserialize after CompositeType.unserialize, which did r
TimeAfter(f, r) ==
    IF r.exc # "none" THEN [exc |-> r.exc, f |-> [f EXCEPT !.kids = r.kids]]
    ELSE IF ~ValidTime(r.kids[1].val.c[1], r.kids[2].val.c[1], r.kids[3].val.c[1])
    THEN [exc |-> "ValueError", f |-> [f EXCEPT !.kids = r.kids]]
    ELSE [exc |-> "none",
          f |-> [f EXCEPT !.kids = r.kids,
                          !.val = TimeV(r.kids[1].val.c[1], r.kids[2].val.c[1],
                                        r.kids[3].val.c[1])]]

\* Time.unserialize
TimeUnserialize(f, val) == TimeAfter(f, CompositeKids(f.kids, val, 1))

\* p.unserialize(myval), dispatched on the class of p
FieldUnserialize(f, val) ==
    IF f.kind = "DateTime" THEN DateTimeUnserialize(f, val)
    ELSE IF f.kind = "Time" THEN TimeUnserialize(f, val)
    ELSE ScalarUnserialize(f, val)

(***************************************************************************)
(* Messages: PlugwiseMessage, the response classes and the request classes.*)
(***************************************************************************)
PACKET_HEADER == <<"x05", "x05", "x03", "x03">>

PACKET_FOOTER == <<"CR", "LF">>

\* PlugwiseMessage.calculate_checksum
calculate_checksum(s) == FormatHex(crc_fun(s), 4)

\* the frame of a message body: header, body, checksum, footer
Framed(msg) == PACKET_HEADER \o msg \o calculate_checksum(msg) \o PACKET_FOOTER

\* a variant of serialize that writes the MAC before the function code
serializeMacFirst(req) ==
    Framed(req.mac \o req.ID
             \o Concat([i \in 1..Len(req.args) |-> FieldSerialize(req.args[i])]))

\* PlugwiseMessage.serialize, for a request [ID, mac, args]
serialize(req) ==
    Framed(req.ID \o req.mac
             \o Concat([i \in 1..Len(req.args) |-> FieldSerialize(req.args[i])]))

Request(id, mac, args) == [ID |-> id, mac |-> mac, args |-> args]

PlugwiseInitRequest == Request(<<"0","0","0","A">>, <<>>, <<>>)

PlugwisePowerUsageRequest(mac) == Request(<<"0","0","1","2">>, mac, <<>>)

PlugwiseInfoRequest(mac) == Request(<<"0","0","2","3">>, mac, <<>>)

PlugwiseClockInfoRequest(mac) == Request(<<"0","0","3","E">>, mac, <<>>)

PlugwiseCalibrationRequest(mac) == Request(<<"0","0","2","6">>, mac, <<>>)

\* PlugwiseClockSetRequest.__init__; dt is a datetime
\* [year, month, day, hour, minute, second, weekday]
PlugwiseClockSetRequest(mac, dt) ==
    Request(<<"0","0","1","6">>, mac,
            << DateTime(dt.year, dt.month, ((dt.day - 1) * 24 * 60) + dt.minute),
               Field("String", 8, StrV(<<"F","F","F","F","F","F","F","F">>)),
               Time(dt.hour, dt.minute, dt.second),
               Field("Int", 2, IntV(dt.weekday)) >>)

\* PlugwiseSwitchRequest.__init__; on is any Python value, given as a Value
PlugwiseSwitchRequest(mac, on) ==
    Request(<<"0","0","1","7">>, mac,
            <<Field("Int", 2, IntV(IF on \in {BoolV(TRUE), IntV(1)} THEN 1 ELSE 0))>>)

\* A response object: its class, the field objects it owns and, in params,
\* the index of the object each parameter refers to.
Response(cls, id, objs, params) ==
    [cls |-> cls, ID |-> id, objs |-> objs, params |-> params]

PlugwiseCalibrationResponse ==
    Response("PlugwiseCalibrationResponse", <<"0","0","2","7">>,
             << Field("Float", 8, IntV(0)), Field("Float", 8, IntV(0)),
                Field("Float", 8, IntV(0)), Field("Float", 8, IntV(0)) >>,
             <<1, 2, 3, 4>>)

PlugwiseClockInfoResponse ==
    Response("PlugwiseClockInfoResponse", <<"0","0","3","F">>,
             << Time(0, 0, 0), Field("Int", 2, IntV(0)),
                Field("Int", 2, IntV(0)), Field("Int", 4, IntV(0)) >>,
             <<1, 2, 3, 4>>)

PlugwisePowerUsageResponse ==
    Response("PlugwisePowerUsageResponse", <<"0","0","1","3">>,
             << Field("Int", 4, IntV(0)), Field("Int", 4, IntV(0)),
                Field("Int", 8, IntV(0)), Field("Int", 4, IntV(0)),
                Field("Int", 4, IntV(0)), Field("Int", 4, IntV(0)) >>,
             <<1, 2, 3, 4, 5, 6>>)

PlugwiseInfoResponse ==
    Response("PlugwiseInfoResponse", <<"0","0","2","4">>,
             << DateTime(0, 0, 0), Field("LogAddr", 8, IntV(0)),
                Field("Int", 2, IntV(0)), Field("Int", 2, IntV(0)),
                Field("String", 12, NoneV), Field("UnixTimestamp", 8, IntV(0)),
                Field("Int", 2, IntV(0)) >>,
             <<1, 2, 3, 4, 5, 6, 7>>)

\* self.unknown is assigned twice, so the first and the last parameter are
\* one and the same object
PlugwiseInitResponse ==
    Response("PlugwiseInitResponse", <<"0","0","1","1">>,
             << Field("Int", 2, IntV(0)), Field("Int", 2, IntV(0)),
                Field("Int", 16, IntV(0)), Field("Int", 4, IntV(0)) >>,
             <<1, 2, 3, 4, 1>>)

\* a variant of __len__ that leaves out the checksum and the footer
ResponseLenNoTrailer(resp) ==
    28 + SumSeq([i \in 1..Len(resp.params) |-> FieldLen(resp.objs[resp.params[i]])])

\* PlugwiseResponse.__len__
ResponseLen(resp) ==
    34 + SumSeq([i \in 1..Len(resp.params) |-> FieldLen(resp.objs[resp.params[i]])])

RECURSIVE _parse_params(_, _, _)

\* one turn of the loop of _parse_params: r is what p.unserialize(myval)
\* did to the object k that parameter i refers to
ParseStep(resp, response, i, k, r) ==
    IF r.exc # "none"
    THEN [exc |-> r.exc, resp |-> [resp EXCEPT !.objs[k] = r.f], rest |-> response]
    ELSE _parse_params([resp EXCEPT !.objs[k] = r.f],
                       Drop(response, FieldLen(resp.objs[k])), i + 1)

\* PlugwiseResponse._parse_params: the loop over self.params from index i on
_parse_params(resp, response, i) ==
    IF i > Len(resp.params) THEN [exc |-> "none", resp |-> resp, rest |-> response]
    ELSE ParseStep(resp, response, i, resp.params[i],
                   FieldUnserialize(resp.objs[resp.params[i]],
                                    Take(response, FieldLen(resp.objs[resp.params[i]]))))

\* the end of PlugwiseResponse.unserialize: r is what _parse_params did
CheckFooter(r) ==
    IF r.exc # "none" THEN [exc |-> r.exc, resp |-> r.resp]
    ELSE IF Drop(r.rest, 4) # PACKET_FOOTER THEN [exc |-> "footer", resp |-> r.resp]
    ELSE [exc |-> "none", resp |-> r.resp]

\* a variant of unserialize that looks at the header before the length
unserializeHeaderFirst(resp, response) ==
    IF Take(response, 4) # PACKET_HEADER THEN [exc |-> "header", resp |-> resp]
    ELSE IF Len(response) # 34 + SumSeq([i \in 1..Len(resp.params) |->
                                           FieldLen(resp.objs[resp.params[i]])])
    THEN [exc |-> "length", resp |-> resp]
    ELSE CheckFooter(_parse_params(resp, Drop(response, 28), 1))

\* a variant of unserialize that compares the checksum of the frame with
\* the CRC of what stands between header and checksum
unserializeVerified(resp, response) ==
    IF Len(response) # ResponseLen(resp) THEN [exc |-> "length", resp |-> resp]
    ELSE IF SubSeq(response, 1, 4) # PACKET_HEADER
    THEN [exc |-> "header", resp |-> resp]
    ELSE IF SubSeq(response, Len(response) - 5, Len(response) - 2)
              # calculate_checksum(SubSeq(response, 5, Len(response) - 6))
    THEN [exc |-> "checksum", resp |-> resp]
    ELSE CheckFooter(_parse_params(resp, Drop(response, 28), 1))

\* a variant of unserialize that compares the footer before it decodes the
\* parameters
unserializeFooterFirst(resp, response) ==
    IF Len(response) # ResponseLen(resp) THEN [exc |-> "length", resp |-> resp]
    ELSE IF SubSeq(response, 1, 4) # PACKET_HEADER
    THEN [exc |-> "header", resp |-> resp]
    ELSE IF Drop(response, Len(response) - 2) # PACKET_FOOTER
    THEN [exc |-> "footer", resp |-> resp]
    ELSE CheckFooter(_parse_params(resp, Drop(response, 28), 1))

\* PlugwiseResponse.unserialize: exc is "none", the ProtocolError raised
\* ("length", "header", "footer") or the exception a field raised; resp is
\* the response object afterwards
unserialize(resp, response) ==
    IF Len(response) # ResponseLen(resp) THEN [exc |-> "length", resp |-> resp]
    ELSE IF SubSeq(response, 1, 4) # PACKET_HEADER
    THEN [exc |-> "header", resp |-> resp]
    ELSE CheckFooter(_parse_params(resp, Drop(response, 28), 1))

\* the exceptions "except ProtocolError" catches
IsProtocolError(exc) == exc \in {"length", "header", "footer"}

(***************************************************************************)
(* The inputs of the model: the MAC addresses and datetimes the client     *)
(* program passes, and the frames readline can return.                     *)
(***************************************************************************)
MacFull == <<"0","1","2","3","4","5","6","7","8","9","A","B","C","D","E","F">>

MacLower == <<"0","1","2","3","4","5","6","7","8","9","a","b","c","d","e","f">>

MacShort == <<"A","B","C">>

\* a MAC read from a file with its line end still on it
MacNewline == MacFull \o <<"LF">>

MacNotHex == <<"G","1","2","3">>

MacPrefixed == <<"0","x","1","F">>

MacInputs == {MacFull, MacLower, MacShort, MacNewline, MacNotHex, MacPrefixed, <<>>}

\* datetime.weekday(): Monday is 0
\* the day of the week, Sunday being 0, of a day of the year that starts
\* in March: yy is y - 1 for January and February
SundayZero(yy, m, d) ==
    (yy + (yy \div 4) - (yy \div 100) + (yy \div 400)
        + <<0, 3, 2, 5, 0, 3, 5, 1, 4, 6, 2, 4>>[m] + d) % 7

Weekday(y, m, d) == (SundayZero(IF m < 3 THEN y - 1 ELSE y, m, d) + 6) % 7

DateTimeOf(y, mo, d, h, mi, sec) ==
    [year |-> y, month |-> mo, day |-> d, hour |-> h, minute |-> mi,
     second |-> sec, weekday |-> Weekday(y, mo, d)]

DateTimeInputs ==
    { DateTimeOf(2011, 5, 2, 10, 30, 0),
      DateTimeOf(2011, 5, 1, 0, 5, 0),
      DateTimeOf(2255, 12, 31, 23, 59, 0),
      DateTimeOf(2256, 1, 15, 8, 0, 30),
      DateTimeOf(1999, 12, 31, 23, 59, 59) }

\* the values of the "on" argument of Circle.switch
OnInputs == {BoolV(TRUE), BoolV(FALSE), IntV(1), IntV(2)}

\* the sequence counter and the MAC of the frames the device sends
DeviceSeq == <<"0","0","0","1">>

DeviceMac == <<"0","0","0","D","6","F","0","0","0","0","A","A","B","B","C","C">>

\* gain_a 1.0, gain_b 2.0, off_tot 0.0, off_ruis -1.0
CalibrationBodyA ==
    <<"3","F","8","0","0","0","0","0">> \o
    <<"4","0","0","0","0","0","0","0">> \o
    <<"0","0","0","0","0","0","0","0">> \o
    <<"B","F","8","0","0","0","0","0">>

\* gain_a 0.5, gain_b 1.0, off_tot 3.0, off_ruis 0.1
CalibrationBodyB ==
    <<"3","F","0","0","0","0","0","0">> \o
    <<"3","F","8","0","0","0","0","0">> \o
    <<"4","0","4","0","0","0","0","0">> \o
    <<"3","D","C","C","C","C","C","D">>

\* 10:30:45, Thursday
ClockInfoBodyA ==
    <<"0","A","1","E","2","D">> \o
    <<"0","3">> \o
    <<"0","1">> \o
    <<"0","0","0","0">>

\* 23:59:59, Sunday
ClockInfoBodyB ==
    <<"1","7","3","B","3","B">> \o
    <<"0","6">> \o
    <<"0","0">> \o
    <<"0","0","0","1">>

\* 16 pulses in the last second
PowerUsageBodyA ==
    <<"0","0","1","0">> \o
    <<"0","0","8","0">> \o
    <<"0","0","0","0","1","0","0","0">> \o
    <<"0","0","0","0">> \o
    <<"0","0","0","0">> \o
    <<"0","0","0","0">>

\* no pulse in the last second
PowerUsageBodyB ==
    <<"0","0","0","0">> \o
    <<"0","0","0","3">> \o
    <<"0","0","0","0","F","F","F","F">> \o
    <<"0","0","0","1">> \o
    <<"0","0","0","2">> \o
    <<"0","0","0","3">>

\* 2011-05, minute 3000 of the month, log address 278528
InfoBodyA ==
    <<"0","B">> \o
    <<"0","5">> \o
    <<"0","B","B","8">> \o
    <<"0","0","0","4","4","0","0","0">> \o
    <<"0","1">> \o
    <<"8","5">> \o
    <<"0","0","0","0","0","0","7","3","0","0","0","7">> \o
    <<"4","E","0","8","4","3","A","9">> \o
    <<"0","1">>

\* 2011-06, minute 1600 of the month, log address 278560
InfoBodyB ==
    <<"0","B">> \o
    <<"0","6">> \o
    <<"0","6","4","0">> \o
    <<"0","0","0","4","4","0","2","0">> \o
    <<"0","0">> \o
    <<"8","5">> \o
    <<"0","0","0","0","0","0","7","0","0","0","1","1">> \o
    <<"4","C","C","E","C","2","2","B">> \o
    <<"0","0">>

\* network online
InitBodyA ==
    <<"0","0">> \o
    <<"0","1">> \o
    <<"0","0","0","D","6","F","0","0","0","0","A","A","B","B","C","C">> \o
    <<"1","2","3","4">> \o
    <<"F","F">>

\* network offline
InitBodyB ==
    <<"0","1">> \o
    <<"0","0">> \o
    <<"0","0","0","D","6","F","0","0","0","0","1","1","2","2","3","3">> \o
    <<"0","0","F","F">> \o
    <<"0","0">>

ResponseClasses ==
    { PlugwiseCalibrationResponse, PlugwiseClockInfoResponse,
      PlugwisePowerUsageResponse, PlugwiseInfoResponse, PlugwiseInitResponse }

\* the two sample bodies of a response class
BodyOf(cls, which) ==
    CASE cls = "PlugwiseCalibrationResponse" ->
             (IF which = "A" THEN CalibrationBodyA ELSE CalibrationBodyB)
      [] cls = "PlugwiseClockInfoResponse" ->
             (IF which = "A" THEN ClockInfoBodyA ELSE ClockInfoBodyB)
      [] cls = "PlugwisePowerUsageResponse" ->
             (IF which = "A" THEN PowerUsageBodyA ELSE PowerUsageBodyB)
      [] cls = "PlugwiseInfoResponse" ->
             (IF which = "A" THEN InfoBodyA ELSE InfoBodyB)
      [] cls = "PlugwiseInitResponse" ->
             (IF which = "A" THEN InitBodyA ELSE InitBodyB)

\* a frame as the device sends it: header, function code, sequence
\* counter, MAC, parameters, checksum of all between header and checksum,
\* footer
DeviceFrame(id, params) == Framed(id \o DeviceSeq \o DeviceMac \o params)

Replace(frame, from, text) ==
    [i \in 1..Len(frame) |->
        IF i >= from /\ i < from + Len(text) THEN text[i - from + 1] ELSE frame[i]]

BrokenHeader(frame) == Replace(frame, 1, <<"x03">>)

BrokenFooter(frame) == Replace(frame, Len(frame), <<"CR">>)

\* a byte that is no hexadecimal digit in the first parameter slot
CorruptField(frame) == Replace(frame, 29, <<"Z">>)

\* another function code: the acknowledgement the device sends first
OtherCode(frame) == Replace(frame, 5, <<"0","0","0","0">>)

\* a checksum that is not the CRC of the frame's body
WrongChecksum(frame) ==
    Replace(frame, Len(frame) - 5,
            IF SubSeq(frame, Len(frame) - 5, Len(frame) - 2) = <<"0","0","0","0">>
            THEN <<"F","F","F","F">> ELSE <<"0","0","0","0">>)

\* four characters in the checksum position that are no number at all
GarbageChecksum(frame) == Replace(frame, Len(frame) - 5, <<"Z","Z","Z","Z">>)

\* a parameter that is hexadecimal but out of its range: hour 255 in a
\* clock response; month 255, or minute 5 of the month (day 0), in an info
\* response
OutOfRange(cls, frame) ==
    IF cls = "PlugwiseClockInfoResponse" THEN {Replace(frame, 29, <<"F","F">>)}
    ELSE IF cls = "PlugwiseInfoResponse"
    THEN {Replace(frame, 31, <<"F","F">>), Replace(frame, 33, <<"0","0","0","5">>)}
    ELSE {}

GoodFrame(rc, which) == DeviceFrame(rc.ID, BodyOf(rc.cls, which))

\* a well-formed frame of another class, of another length
ForeignFrame(rc) ==
    IF rc.cls = "PlugwisePowerUsageResponse"
    THEN GoodFrame(PlugwiseClockInfoResponse, "A")
    ELSE GoodFrame(PlugwisePowerUsageResponse, "A")

\* info frames whose log address is no multiple of 32 above the offset:
\* 278545, 278559 and 278527
UnalignedLogAddr(rc) ==
    IF rc.cls = "PlugwiseInfoResponse"
    THEN { DeviceFrame(rc.ID, Replace(InfoBodyA, 9, <<"0","0","0","4","4","0","1","1">>)),
           DeviceFrame(rc.ID, Replace(InfoBodyA, 9, <<"0","0","0","4","4","0","1","F">>)),
           DeviceFrame(rc.ID, Replace(InfoBodyA, 9, <<"0","0","0","4","3","F","F","F">>)) }
    ELSE {}

\* the frames with a parameter slot that cannot be decoded
BadFieldFrames(rc) ==
    { CorruptField(GoodFrame(rc, "A")),
      CorruptField(BrokenFooter(GoodFrame(rc, "A"))) }
    \cup OutOfRange(rc.cls, GoodFrame(rc, "A"))

\* what readline can return while a response of class rc is awaited; the
\* empty string is readline's result when the read timeout expires
FramesFor(rc) ==
    { <<>>,
      GoodFrame(rc, "A"), GoodFrame(rc, "B"),
      ForeignFrame(rc),
      BrokenHeader(GoodFrame(rc, "A")),
      BrokenFooter(GoodFrame(rc, "B")),
      BrokenHeader(BrokenFooter(GoodFrame(rc, "B"))),
      OtherCode(GoodFrame(rc, "A")),
      WrongChecksum(GoodFrame(rc, "B")),
      GarbageChecksum(GoodFrame(rc, "A")) }
    \cup BadFieldFrames(rc)
    \cup UnalignedLogAddr(rc)

ClassNames == {rc.cls : rc \in ResponseClasses}

\* response_class(): a fresh response object of the class named cls
NewResponse(cls) == CHOOSE rc \in ResponseClasses : rc.cls = cls

\* FramesFor, GoodFrame and BadFieldFrames, computed once per class
FrameTable == [cls \in ClassNames |-> FramesFor(NewResponse(cls))]

GoodTable ==
    [cls \in ClassNames |-> [which \in {"A", "B"} |-> GoodFrame(NewResponse(cls), which)]]

BadFieldTable == [cls \in ClassNames |-> BadFieldFrames(NewResponse(cls))]

(***************************************************************************)
(* The state of a client program that builds a Stick and a Circle and      *)
(* calls the Circle's operations one after the other.                      *)
(***************************************************************************)
VARIABLES
    stick,      \* the Stick: "none", "init" (port open, init running), "ready", "failed"
    circle,     \* the Circle object: made, mac, gain_a, gain_b, off_ruis, off_tot
    pc,         \* "idle", "awaiting" (inside expect_response), "returned", "raised"
    op,         \* the call in progress or last made: its name and arguments
    cont,       \* the statement that called expect_response
    resp,       \* the response object expect_response allocated
    lastFrame,  \* what the last readline of this expect_response returned
    lastExc,    \* what unserialize did with it
    reads,      \* readline calls made by this expect_response
    discards,   \* frames this expect_response discarded
    exc,        \* the exception that escaped the call, or "none"
    ret,        \* the values the call returned
    tx,         \* the frames the call has written
    nops,       \* Circle operations called so far
    unread      \* requests written whose response no expect_response has returned

vars == <<stick, circle, pc, op, cont, resp, lastFrame, lastExc, reads,
          discards, exc, ret, tx, nops, unread>>

NoCircle ==
    [made |-> FALSE, mac |-> <<>>, gain_a |-> Unset, gain_b |-> Unset,
     off_ruis |-> Unset, off_tot |-> Unset]

NoDateTime == DateTimeOf(1, 1, 1, 0, 0, 0)

Call(name, mac, dt, on) == [name |-> name, mac |-> mac, dt |-> dt, on |-> on]

NoCall == Call("none", <<>>, NoDateTime, NoneV)

NoResponse == Response("none", <<>>, <<>>, <<>>)

Init ==
    /\ stick = "none"
    /\ circle = NoCircle
    /\ pc = "idle"
    /\ op = NoCall
    /\ cont = "none"
    /\ resp = NoResponse
    /\ lastFrame = <<>>
    /\ lastExc = "none"
    /\ reads = 0
    /\ discards = 0
    /\ exc = "none"
    /\ ret = <<>>
    /\ tx = <<>>
    /\ nops = 0
    /\ unread = 0

\* no call is in progress
AtRest == pc \in {"idle", "returned", "raised"}

\* re.match("^[A-F0-9]+$", mac): "$" matches at the end and also before
\* one final newline
MatchesHex(mac) ==
    /\ mac # <<>>
    /\ \A i \in 1..(Len(mac) - 1) : IsUpperHex(mac[i])
    /\ IsUpperHex(mac[Len(mac)]) \/ (mac[Len(mac)] = "LF" /\ Len(mac) > 1)

\* Circle._validate_mac
_validate_mac(mac) ==
    IF ~MatchesHex(mac) THEN FALSE
    ELSE IF ~ParseInt16(mac).ok THEN FALSE
    ELSE TRUE

\* the MACs a Circle can hold
StoredMacs == {Upper(mac) : mac \in {m \in MacInputs : _validate_mac(Upper(m))}}

\* the requests the client program can build
Requests ==
    {PlugwiseInitRequest}
    \cup {PlugwiseCalibrationRequest(mac) : mac \in StoredMacs}
    \cup {PlugwisePowerUsageRequest(mac) : mac \in StoredMacs}
    \cup {PlugwiseInfoRequest(mac) : mac \in StoredMacs}
    \cup {PlugwiseClockInfoRequest(mac) : mac \in StoredMacs}
    \cup {PlugwiseClockSetRequest(mac, dt) : mac \in StoredMacs, dt \in DateTimeInputs}
    \cup {PlugwiseSwitchRequest(mac, on) : mac \in StoredMacs, on \in OnInputs}

\* serialize, computed once per request
Serialized == [req \in Requests |-> serialize(req)]

\* Stick.send_msg: cmd is written after what the call wrote before
send_msg(before, cmd) ==
    /\ tx' = Append(before, cmd)
    /\ unread' = unread + 1

\* the entry of Stick.expect_response, called from the statement named
\* from: a fresh response object, nothing read yet
ExpectEntry(cls, from) ==
    /\ resp' = NewResponse(cls)
    /\ cont' = from
    /\ pc' = "awaiting"
    /\ lastFrame' = <<>>
    /\ lastExc' = "none"
    /\ reads' = 0
    /\ discards' = 0

\* a call that never enters expect_response: its locals of an earlier call
\* are gone
NoExpect ==
    /\ resp' = NoResponse
    /\ cont' = "none"
    /\ lastFrame' = <<>>
    /\ lastExc' = "none"
    /\ reads' = 0
    /\ discards' = 0

\* Stick(): SerialComChannel.__init__ opens the port, Stick.init sends the
\* init request and waits for its response
StickNew ==
    /\ AtRest /\ stick = "none" /\ ~circle.made
    /\ stick' = "init"
    /\ op' = Call("Stick", <<>>, NoDateTime, NoneV)
    /\ send_msg(<<>>, Serialized[PlugwiseInitRequest])
    /\ ExpectEntry("PlugwiseInitResponse", "Stick.init")
    /\ exc' = "none" /\ ret' = <<>>
    /\ UNCHANGED <<circle, nops>>

\* Circle(mac, comchan) with a MAC that _validate_mac rejects
CircleNewInvalid(mac) ==
    /\ AtRest /\ ~circle.made /\ stick \in {"none", "ready"}
    /\ ~_validate_mac(Upper(mac))
    /\ op' = Call("Circle", mac, NoDateTime, NoneV)
    /\ pc' = "raised"
    /\ exc' = "ValueError"
    /\ ret' = <<>>
    /\ tx' = <<>>
    /\ NoExpect
    /\ UNCHANGED <<stick, circle, nops, unread>>

\* Circle(mac, comchan) with the Stick the program built before
CircleNewGiven(mac) ==
    /\ AtRest /\ ~circle.made /\ stick = "ready"
    /\ _validate_mac(Upper(mac))
    /\ op' = Call("Circle", mac, NoDateTime, NoneV)
    /\ circle' = [made |-> TRUE, mac |-> Upper(mac), gain_a |-> NoneV,
                  gain_b |-> NoneV, off_ruis |-> NoneV, off_tot |-> NoneV]
    /\ pc' = "returned"
    /\ exc' = "none"
    /\ ret' = <<>>
    /\ tx' = <<>>
    /\ NoExpect
    /\ UNCHANGED <<stick, nops, unread>>

\* Circle(mac): comchan is None, so the constructor builds a Stick itself
CircleNewDefault(mac) ==
    /\ AtRest /\ ~circle.made /\ stick = "none"
    /\ _validate_mac(Upper(mac))
    /\ op' = Call("Circle", mac, NoDateTime, NoneV)
    /\ circle' = [circle EXCEPT !.mac = Upper(mac)]
    /\ stick' = "init"
    /\ send_msg(<<>>, Serialized[PlugwiseInitRequest])
    /\ ExpectEntry("PlugwiseInitResponse", "Circle.__init__")
    /\ exc' = "none" /\ ret' = <<>>
    /\ UNCHANGED nops

\* the client calls an operation of the Circle it has built
CanCall == AtRest /\ circle.made /\ nops < MaxOps

Enter(name, dt, on) ==
    /\ CanCall
    /\ op' = Call(name, circle.mac, dt, on)
    /\ nops' = nops + 1
    /\ exc' = "none"
    /\ ret' = <<>>
    /\ UNCHANGED <<stick, circle>>

StartOp(req, cls, from) ==
    /\ send_msg(<<>>, Serialized[req])
    /\ ExpectEntry(cls, from)

\* Circle.calibrate, up to its expect_response
Calibrate ==
    /\ Enter("calibrate", NoDateTime, NoneV)
    /\ StartOp(PlugwiseCalibrationRequest(circle.mac),
               "PlugwiseCalibrationResponse", "calibrate")

\* a variant of get_power_usage that calls calibrate every time
GetPowerUsageRecalibrate ==
    /\ Enter("get_power_usage", NoDateTime, NoneV)
    /\ StartOp(PlugwiseCalibrationRequest(circle.mac),
               "PlugwiseCalibrationResponse", "get_power_usage.calibrate")

\* Circle.get_power_usage, up to its first expect_response: that of
\* calibrate when gain_a is None, its own otherwise
GetPowerUsage ==
    /\ Enter("get_power_usage", NoDateTime, NoneV)
    /\ IF circle.gain_a = NoneV
       THEN StartOp(PlugwiseCalibrationRequest(circle.mac),
                    "PlugwiseCalibrationResponse", "get_power_usage.calibrate")
       ELSE StartOp(PlugwisePowerUsageRequest(circle.mac),
                    "PlugwisePowerUsageResponse", "get_power_usage")

\* Circle.get_info, up to its expect_response
GetInfo ==
    /\ Enter("get_info", NoDateTime, NoneV)
    /\ StartOp(PlugwiseInfoRequest(circle.mac), "PlugwiseInfoResponse", "get_info")

\* Circle.get_clock, up to its expect_response
GetClock ==
    /\ Enter("get_clock", NoDateTime, NoneV)
    /\ StartOp(PlugwiseClockInfoRequest(circle.mac),
               "PlugwiseClockInfoResponse", "get_clock")

\* Circle.set_clock: the request is written and dt returned
SetClock(dt) ==
    /\ Enter("set_clock", dt, NoneV)
    /\ send_msg(<<>>, Serialized[PlugwiseClockSetRequest(circle.mac, dt)])
    /\ pc' = "returned"
    /\ NoExpect

\* Circle.switch: the request is written and send_msg's None returned
Switch(on) ==
    /\ Enter("switch", NoDateTime, on)
    /\ send_msg(<<>>, Serialized[PlugwiseSwitchRequest(circle.mac, on)])
    /\ pc' = "returned"
    /\ NoExpect

(***************************************************************************)
(* One turn of the loop of Stick.expect_response: _recv_response reads a   *)
(* line and unserializes it into the response object.                      *)
(***************************************************************************)
\* what the next readline can return
Incoming == IF pc = "awaiting" THEN FrameTable[resp.cls] ELSE {}

\* _recv_response: readline returned frame and unserialize did r
Reading(frame, r) ==
    /\ lastFrame' = frame
    /\ lastExc' = r.exc
    /\ resp' = r.resp
    /\ reads' = reads + 1

\* a variant of the except clause that writes the request again before
\* the loop reads again
RecvDiscardResend(frame) ==
    /\ pc = "awaiting" /\ reads < MaxReads
    /\ \E r \in {unserialize(resp, frame)} :
          /\ IsProtocolError(r.exc)
          /\ Reading(frame, r)
    /\ discards' = discards + 1
    /\ tx' = Append(tx, tx[Len(tx)])
    /\ UNCHANGED <<stick, circle, pc, op, cont, exc, ret, nops, unread>>

\* unserialize raised ProtocolError: the except clause logs it and the
\* loop reads again
RecvDiscard(frame) ==
    /\ pc = "awaiting" /\ reads < MaxReads
    /\ \E r \in {unserialize(resp, frame)} :
          /\ IsProtocolError(r.exc)
          /\ Reading(frame, r)
    /\ discards' = discards + 1
    /\ UNCHANGED <<stick, circle, pc, op, cont, exc, ret, tx, nops, unread>>

\* unserialize raised something else: it leaves expect_response and the
\* operation that called it
RecvRaise(frame) ==
    /\ pc = "awaiting" /\ reads < MaxReads
    /\ \E r \in {unserialize(resp, frame)} :
          /\ r.exc # "none" /\ ~IsProtocolError(r.exc)
          /\ Reading(frame, r)
          /\ exc' = r.exc
    /\ pc' = "raised"
    /\ stick' = IF stick = "init" THEN "failed" ELSE stick
    /\ circle' = IF circle.made THEN circle ELSE NoCircle
    /\ UNCHANGED <<op, cont, discards, ret, tx, nops, unread>>

\* the loop over ('gain_a', 'gain_b', 'off_ruis', 'off_tot') of
\* Circle.calibrate; the response's parameters are gain_a, gain_b,
\* off_tot, off_ruis
Calibrated(c, r) ==
    [c EXCEPT !.gain_a = r.objs[1].val, !.gain_b = r.objs[2].val,
              !.off_ruis = r.objs[4].val, !.off_tot = r.objs[3].val]

\* unserialize returned, so expect_response returns the response to the
\* statement that called it, in Stick.init or Circle.__init__
RecvReturnInit(frame) ==
    /\ pc = "awaiting" /\ reads < MaxReads
    /\ cont \in {"Stick.init", "Circle.__init__"}
    /\ \E r \in {unserialize(resp, frame)} :
          /\ r.exc = "none"
          /\ Reading(frame, r)
    /\ stick' = "ready"
    /\ circle' = IF cont = "Circle.__init__"
                 THEN [circle EXCEPT !.made = TRUE, !.gain_a = NoneV,
                                     !.gain_b = NoneV, !.off_ruis = NoneV,
                                     !.off_tot = NoneV]
                 ELSE circle
    /\ pc' = "returned"
    /\ unread' = unread - 1
    /\ UNCHANGED <<op, cont, discards, exc, ret, tx, nops>>

\* ... in Circle.calibrate, called by the client
RecvReturnCalibrate(frame) ==
    /\ pc = "awaiting" /\ reads < MaxReads
    /\ cont = "calibrate"
    /\ \E r \in {unserialize(resp, frame)} :
          /\ r.exc = "none"
          /\ Reading(frame, r)
          /\ circle' = Calibrated(circle, r.resp)
    /\ ret' = << circle'.gain_a, circle'.gain_b, circle'.off_ruis, circle'.off_tot >>
    /\ pc' = "returned"
    /\ unread' = unread - 1
    /\ UNCHANGED <<stick, op, cont, discards, exc, tx, nops>>

\* ... in Circle.calibrate, called by get_power_usage, which goes on to
\* send its own request and to wait for the response
RecvReturnCalibrateUsage(frame) ==
    /\ pc = "awaiting" /\ reads < MaxReads
    /\ cont = "get_power_usage.calibrate"
    /\ \E r \in {unserialize(resp, frame)} :
          /\ r.exc = "none"
          /\ circle' = Calibrated(circle, r.resp)
    /\ tx' = Append(tx, Serialized[PlugwisePowerUsageRequest(circle.mac)])
    /\ unread' = (unread - 1) + 1
    /\ ExpectEntry("PlugwisePowerUsageResponse", "get_power_usage")
    /\ UNCHANGED <<stick, op, exc, ret, nops>>

\* ... in Circle.get_power_usage: the Watts are computed from pulse_1s
\* and the four coefficients, returned here as they are
RecvReturnUsage(frame) ==
    /\ pc = "awaiting" /\ reads < MaxReads
    /\ cont = "get_power_usage"
    /\ \E r \in {unserialize(resp, frame)} :
          /\ r.exc = "none"
          /\ Reading(frame, r)
          /\ ret' = << r.resp.objs[1].val, circle.off_ruis, circle.gain_b,
                       circle.gain_a, circle.off_tot >>
    /\ pc' = "returned"
    /\ unread' = unread - 1
    /\ UNCHANGED <<stick, circle, op, cont, discards, exc, tx, nops>>

\* ... in Circle.get_info, which returns the response, or in
\* Circle.get_clock, which returns resp.time.value
RecvReturnQuery(frame) ==
    /\ pc = "awaiting" /\ reads < MaxReads
    /\ cont \in {"get_info", "get_clock"}
    /\ \E r \in {unserialize(resp, frame)} :
          /\ r.exc = "none"
          /\ Reading(frame, r)
          /\ ret' = IF cont = "get_clock" THEN <<r.resp.objs[1].val>> ELSE <<>>
    /\ pc' = "returned"
    /\ unread' = unread - 1
    /\ UNCHANGED <<stick, circle, op, cont, discards, exc, tx, nops>>

Next ==
    \/ StickNew
    \/ \E mac \in MacInputs : CircleNewInvalid(mac)
    \/ \E mac \in MacInputs : CircleNewGiven(mac)
    \/ \E mac \in MacInputs : CircleNewDefault(mac)
    \/ Calibrate
    \/ GetPowerUsage
    \/ GetInfo
    \/ GetClock
    \/ \E dt \in DateTimeInputs : SetClock(dt)
    \/ \E on \in OnInputs : Switch(on)
    \/ \E frame \in Incoming : RecvDiscard(frame)
    \/ \E frame \in Incoming : RecvRaise(frame)
    \/ \E frame \in Incoming : RecvReturnInit(frame)
    \/ \E frame \in Incoming : RecvReturnCalibrate(frame)
    \/ \E frame \in Incoming : RecvReturnCalibrateUsage(frame)
    \/ \E frame \in Incoming : RecvReturnUsage(frame)
    \/ \E frame \in Incoming : RecvReturnQuery(frame)

Spec == Init /\ [][Next]_vars

(***************************************************************************)
(* The decoding of the date and time of an info response: get_info on the  *)
(* Circle 0123456789ABCDEF is waiting for its response, and the device     *)
(* answers with one of DateTimeFrames.                                     *)
(***************************************************************************)
\* the year offsets and months the device sends
YearMonths ==
    {<<11, 5>>, <<12, 2>>, <<11, 2>>, <<0, 4>>, <<255, 12>>, <<11, 0>>, <<11, 13>>}

\* the minutes of the month the device sends: the first and the last
\* minute and two others of every day the four digits can hold
MinutesSampled ==
    {m \in {(d * 1440) + r : d \in 0..45, r \in {0, 61, 754, 1439}} : m <= 65535}

\* an info frame with the year offset, month and minutes given
DateTimeFrame(ym, m) ==
    Replace(GoodTable["PlugwiseInfoResponse"]["A"], 29,
            FormatHex(ym[1], 2) \o FormatHex(ym[2], 2) \o FormatHex(m, 4))

DateTimeFrames == {DateTimeFrame(ym, m) : ym \in YearMonths, m \in MinutesSampled}

\* Stick() and Circle(mac, stick) have returned and get_info has written
\* its request
InitAwaitingInfo ==
    /\ stick = "ready"
    /\ circle = [made |-> TRUE, mac |-> MacFull, gain_a |-> NoneV,
                 gain_b |-> NoneV, off_ruis |-> NoneV, off_tot |-> NoneV]
    /\ pc = "awaiting"
    /\ op = Call("get_info", MacFull, NoDateTime, NoneV)
    /\ cont = "get_info"
    /\ resp = NewResponse("PlugwiseInfoResponse")
    /\ lastFrame = <<>>
    /\ lastExc = "none"
    /\ reads = 0
    /\ discards = 0
    /\ exc = "none"
    /\ ret = <<>>
    /\ tx = <<Serialized[PlugwiseInfoRequest(MacFull)]>>
    /\ nops = 1
    /\ unread = 1

NextDateTime ==
    \/ \E frame \in DateTimeFrames : RecvReturnQuery(frame)
    \/ \E frame \in DateTimeFrames : RecvRaise(frame)

SpecDateTime == InitAwaitingInfo /\ [][NextDateTime]_vars

(***************************************************************************)
(* The properties checked.                                                 *)
(***************************************************************************)
\* the current or last expect_response call has read a frame
HasRead == reads > 0 /\ resp.cls \in ClassNames

\* the frame last read is one of the two well-formed sample frames of the
\* awaited class
ReadGood(which) == HasRead /\ lastFrame = GoodTable[resp.cls][which]

\* the values the parameters of the sample frames stand for, object by
\* object of the response
SampleValues(cls, which) ==
    CASE cls = "PlugwiseCalibrationResponse" ->
           IF which = "A"
           THEN << FloatV(<<"3","F","8","0","0","0","0","0">>), FloatV(<<"4","0","0","0","0","0","0","0">>),
                   FloatV(<<"0","0","0","0","0","0","0","0">>), FloatV(<<"B","F","8","0","0","0","0","0">>) >>
           ELSE << FloatV(<<"3","F","0","0","0","0","0","0">>), FloatV(<<"3","F","8","0","0","0","0","0">>),
                   FloatV(<<"4","0","4","0","0","0","0","0">>), FloatV(<<"3","D","C","C","C","C","C","D">>) >>
      [] cls = "PlugwiseClockInfoResponse" ->
           IF which = "A" THEN << TimeV(10, 30, 45), IntV(3), IntV(1), IntV(0) >>
           ELSE << TimeV(23, 59, 59), IntV(6), IntV(0), IntV(1) >>
      [] cls = "PlugwisePowerUsageResponse" ->
           IF which = "A"
           THEN << IntV(16), IntV(128), IntV(4096), IntV(0), IntV(0), IntV(0) >>
           ELSE << IntV(0), IntV(3), IntV(65535), IntV(1), IntV(2), IntV(3) >>
      [] cls = "PlugwiseInfoResponse" ->
           IF which = "A"
           THEN << DateTimeV(2011, 5, 2, 2, 0), IntV(0), IntV(1), IntV(133),
                   StrV(<<"0","0","0","0","0","0","7","3","0","0","0","7">>),
                   TimestampV([t |-> "int", c |-> <<1>>, s |-> <<"4","E","0","8","4","3","A","9">>]),
                   IntV(1) >>
           ELSE << DateTimeV(2011, 6, 1, 2, 40), IntV(1), IntV(0), IntV(133),
                   StrV(<<"0","0","0","0","0","0","7","0","0","0","1","1">>),
                   TimestampV([t |-> "int", c |-> <<1>>, s |-> <<"4","C","C","E","C","2","2","B">>]),
                   IntV(0) >>
      [] cls = "PlugwiseInitResponse" ->
           IF which = "A"
           THEN << IntV(255), IntV(1),
                   [t |-> "int", c |-> <<1>>, s |-> <<"D","6","F","0","0","0","0","A","A","B","B","C","C">>],
                   IntV(4660) >>
           ELSE << IntV(0), IntV(0),
                   [t |-> "int", c |-> <<1>>, s |-> <<"D","6","F","0","0","0","0","1","1","2","2","3","3">>],
                   IntV(255) >>

\* the response object holds exactly the values of the sample frame
HoldsSample(which) ==
    /\ Len(resp.objs) = Len(SampleValues(resp.cls, which))
    /\ \A i \in 1..Len(resp.objs) : resp.objs[i].val = SampleValues(resp.cls, which)[i]

\* C1 (as claimed): once readline has returned the empty string, the call
\* has ended with a timeout error; it is not still waiting and reads no more
C1_TimeoutOnEmptyRead ==
    (HasRead /\ lastFrame = <<>>) => (pc = "raised" /\ exc = "Timeout")

\* C1 witness: every read returned the empty string and the call is still
\* waiting
C1_Witness ==
    /\ HasRead /\ lastFrame = <<>> /\ pc = "awaiting"
    /\ reads = MaxReads /\ discards = MaxReads /\ exc = "none"

\* C2: when the frames read before all failed the length, header or footer
\* check and a well-formed frame of the awaited class is read, then
\* expect_response returns at once, no error is raised, the response holds
\* the values of that frame and the frames read are the discarded ones and
\* that one
C2_Resync ==
    \A which \in {"A", "B"} :
        ReadGood(which) =>
            /\ pc = "returned"
            /\ exc = "none"
            /\ lastExc = "none"
            /\ HoldsSample(which)
            /\ reads = discards + 1

\* C2 witness: two frames were discarded and the third, well-formed after a
\* frame whose parameters were decoded before its footer failed, is returned
C2_Witness ==
    /\ ReadGood("A") /\ pc = "returned" /\ discards = 2 /\ reads = 3
    /\ cont = "get_info"

\* C3 (as claimed): a frame of the expected length with a correct header
\* and a parameter slot that cannot be decoded is discarded; the call is
\* still waiting and no error has left it
C3_FieldDecodeRecovered ==
    (HasRead /\ lastFrame \in BadFieldTable[resp.cls])
        => (pc = "awaiting" /\ exc = "none")

\* C3 witness: get_info read a frame with a slot that is not hexadecimal and
\* the ValueError of int() has left the call
C3_Witness ==
    /\ HasRead /\ lastFrame \in BadFieldTable[resp.cls]
    /\ op.name = "get_info" /\ pc = "raised" /\ exc = "ValueError"

\* C4 (as claimed): the frame a response was returned from carries the
\* function code of the awaited class
C4_ExpectedTypeOnly ==
    (HasRead /\ lastExc = "none") => SubSeq(lastFrame, 5, 8) = resp.ID

\* C4 witness: get_clock has returned the time of a frame whose function
\* code is 0000
C4_Witness ==
    /\ HasRead /\ lastExc = "none" /\ pc = "returned" /\ op.name = "get_clock"
    /\ SubSeq(lastFrame, 5, 8) = <<"0","0","0","0">>
    /\ resp.ID = <<"0","0","3","F">>

\* the declared lengths of the parameters of the response classes, those of
\* a composite parameter one by one
DeclaredLengths(cls) ==
    CASE cls = "PlugwiseCalibrationResponse" -> <<8, 8, 8, 8>>
      [] cls = "PlugwiseClockInfoResponse" -> <<2, 2, 2, 2, 2, 4>>
      [] cls = "PlugwisePowerUsageResponse" -> <<4, 4, 8, 4, 4, 4>>
      [] cls = "PlugwiseInfoResponse" -> <<2, 2, 4, 8, 2, 2, 12, 8, 2>>
      [] cls = "PlugwiseInitResponse" -> <<2, 2, 16, 4, 2>>

\* C5 (as claimed): unserialize raises the length error exactly when the
\* frame's byte count differs from 28 plus the declared parameter lengths
C5_LengthCheck28 ==
    HasRead => ((lastExc = "length")
                  <=> (Len(lastFrame) # 28 + SumSeq(DeclaredLengths(resp.cls))))

\* C5 (amended): unserialize raises the length error exactly when the
\* frame's byte count differs from 34 plus the declared parameter lengths
\* (the 28 bytes before the parameters, the 4 of the checksum and the 2 of
\* the footer), whatever else is wrong with the frame
C5_LengthCheck ==
    HasRead => ((lastExc = "length")
                  <=> (Len(lastFrame) # 34 + SumSeq(DeclaredLengths(resp.cls))))

\* C5 witness: an empty read, which has no header either, and a frame of
\* another class were both refused for their length
C5_Witness ==
    /\ HasRead /\ lastExc = "length" /\ lastFrame # <<>> /\ discards = 2
    /\ SubSeq(lastFrame, 1, 4) = PACKET_HEADER

\* the Circle operations that write a request
CircleOps == {"calibrate", "get_power_usage", "get_info", "get_clock", "set_clock", "switch"}

\* the text of the arguments of the request of the ClockSet class for dt,
\* argument by argument and part by part: year since 2000, month, minutes
\* of the month, the log address placeholder, hour, minute, second, weekday
ClockSetArgs(dt) ==
    FormatHex(dt.year - 2000, 2) \o FormatHex(dt.month, 2)
        \o FormatHex(((dt.day - 1) * 1440) + dt.minute, 4)
        \o <<"F","F","F","F","F","F","F","F">>
        \o FormatHex(dt.hour, 2) \o FormatHex(dt.minute, 2) \o FormatHex(dt.second, 2)
        \o FormatHex(dt.weekday, 2)

\* the function code, MAC and arguments of the requests the call in
\* progress, or the last one made, has written so far
ExpectedBodies ==
    CASE op.name \in {"Stick", "Circle"} ->
           IF cont \in {"Stick.init", "Circle.__init__"}
           THEN {<< <<"0","0","0","A">> >>} ELSE {<<>>}
      [] op.name = "calibrate" -> {<< <<"0","0","2","6">> \o op.mac >>}
      [] op.name = "get_power_usage" ->
           IF cont = "get_power_usage.calibrate"
           THEN {<< <<"0","0","2","6">> \o op.mac >>}
           ELSE {<< <<"0","0","1","2">> \o op.mac >>,
                 << <<"0","0","2","6">> \o op.mac, <<"0","0","1","2">> \o op.mac >>}
      [] op.name = "get_info" -> {<< <<"0","0","2","3">> \o op.mac >>}
      [] op.name = "get_clock" -> {<< <<"0","0","3","E">> \o op.mac >>}
      [] op.name = "set_clock" ->
           {<< <<"0","0","1","6">> \o op.mac \o ClockSetArgs(op.dt) >>}
      [] op.name = "switch" ->
           {<< <<"0","0","1","7">> \o op.mac
                 \o (IF op.on \in {BoolV(TRUE), IntV(1)} THEN <<"0","1">> ELSE <<"0","0">>) >>}
      [] OTHER -> {<<>>}

\* frame is header, body, four hexadecimal digits, CR LF and nothing else
FramesBody(frame, body) ==
    /\ Len(frame) = 4 + Len(body) + 4 + 2
    /\ SubSeq(frame, 1, 4) = <<"x05", "x05", "x03", "x03">>
    /\ SubSeq(frame, 5, 4 + Len(body)) = body
    /\ \A i \in (Len(body) + 5)..(Len(body) + 8) : IsUpperHex(frame[i])
    /\ SubSeq(frame, Len(body) + 9, Len(body) + 10) = <<"CR", "LF">>

\* C6: every frame a call has written is the header, the function code of
\* its request, the MAC, the arguments' text in the order they were
\* declared, a checksum of four hexadecimal digits and CR LF, with nothing
\* else in it; for switch the only argument is 01 when on is true, else 00
C6_RequestFraming ==
    \E bodies \in ExpectedBodies :
        /\ Len(tx) = Len(bodies)
        /\ \A i \in 1..Len(tx) : FramesBody(tx[i], bodies[i])

\* C6 witness: switch(True) on the Circle 0123456789ABCDEF has written the
\* frame with body 0017 0123456789ABCDEF 01
C6_Witness ==
    /\ op.name = "switch" /\ op.on = BoolV(TRUE) /\ op.mac = MacFull
    /\ tx = << <<"x05", "x05", "x03", "x03", "0","0","1","7">> \o MacFull
                 \o <<"0","1", "7","0","3","A", "CR", "LF">> >>

\* the sum of the declared lengths of the arguments of the request a
\* Circle operation writes
DeclaredArgLen(name) ==
    CASE name = "switch" -> 2
      [] name = "set_clock" -> 2 + 2 + 4 + 8 + 2 + 2 + 2 + 2
      [] OTHER -> 0

\* C7 (as claimed): every frame a Circle operation has written is
\* 4 + 4 + 16 + the declared argument lengths + 4 + 2 bytes long
C7_FixedTotalWidth ==
    op.name \in CircleOps =>
        \A i \in 1..Len(tx) : Len(tx[i]) = 4 + 4 + 16 + DeclaredArgLen(op.name) + 4 + 2

\* C7 witness: switch on the Circle ABC has written a frame of 19 bytes
C7_Witness ==
    /\ op.name = "switch" /\ op.mac = MacShort /\ circle.mac = MacShort
    /\ Len(tx) = 1 /\ Len(tx[1]) = 19

\* the packed date-time in the frame set_clock wrote: the eight bytes
\* after the header, the function code and the MAC
PackedDateTime == SubSeq(tx[1], 8 + Len(op.mac) + 1, 8 + Len(op.mac) + 8)

\* what DateTime.unserialize makes of the packed date-time
DecodedDateTime == DateTimeUnserialize(DateTime(0, 0, 0), PackedDateTime)

\* C8 (as claimed): for a datetime of a year in 2000..2255 with zero
\* seconds, decoding the packed date-time set_clock wrote gives the year,
\* month, day, hour and minute of that datetime
C8_DateTimeRoundTrip ==
    (op.name = "set_clock" /\ op.dt.year \in 2000..2255 /\ op.dt.second = 0) =>
        /\ DecodedDateTime.exc = "none"
        /\ DecodedDateTime.f.val
             = DateTimeV(op.dt.year, op.dt.month, op.dt.day, op.dt.hour, op.dt.minute)

\* C8 witness: set_clock of 2011-05-02 10:30:00 has written 0B0505BE, which
\* decodes to 2011-05-01 00:30
C8_Witness ==
    /\ op.name = "set_clock" /\ op.dt = DateTimeOf(2011, 5, 2, 10, 30, 0)
    /\ PackedDateTime = <<"0","B","0","5","0","5","B","E">>
    /\ DecodedDateTime.exc = "none"
    /\ DecodedDateTime.f.val = DateTimeV(2011, 5, 1, 0, 30)

\* mac is a non-empty string of the characters 0-9 and A-F
OnlyUpperHex(mac) == mac # <<>> /\ \A i \in 1..Len(mac) : IsUpperHex(mac[i])

\* C9 (as claimed): the constructor of Circle called with a MAC that is
\* not, in upper case, a non-empty string of 0-9 and A-F has raised with
\* nothing written or read and no Stick opened, and the MAC a constructed
\* Circle holds has those characters only
C9_InvalidIdentifier ==
    /\ (op.name = "Circle" /\ ~OnlyUpperHex(Upper(op.mac))) =>
           (pc = "raised" /\ tx = <<>> /\ reads = 0 /\ stick \in {"none", "ready"})
    /\ circle.made => OnlyUpperHex(circle.mac)

\* C9 witness: a Circle has been constructed with a MAC that ends in a
\* newline, a default Stick opened for it
C9_Witness ==
    /\ circle.made /\ circle.mac = MacNewline /\ op.name = "Circle"
    /\ pc = "returned" /\ stick = "ready" /\ Len(tx) = 1

\* C10 (as claimed): when a Circle operation has returned, the response to
\* every request written has been read
C10_SynchronousRoundTrip ==
    (pc = "returned" /\ op.name \in CircleOps) => unread = 0

\* C10 witness: get_info has written its request while the response to the
\* request of an operation that returned before it is still unread
C10_Witness ==
    /\ op.name = "get_info" /\ pc = "awaiting" /\ reads = 0 /\ unread = 2

\* the frames of tx are all different
NoFrameTwice(frames) ==
    \A i \in 1..Len(frames) : \A j \in 1..Len(frames) : frames[i] = frames[j] => i = j

\* a step that starts a call: of the Stick or Circle constructor, or of an
\* operation of the Circle
StartsCall == op'.name \in {"Stick", "Circle"} \/ nops' = nops + 1

\* what C11 says of one step
C11_Step ==
    /\ NoFrameTwice(tx')
    /\ (pc = "awaiting" /\ reads' = reads + 1) => tx' = tx
    /\ (pc = "awaiting" /\ tx' # tx) =>
           /\ cont = "get_power_usage.calibrate" /\ cont' = "get_power_usage"
           /\ Len(tx) = 1 /\ Len(tx') = 2 /\ tx'[1] = tx[1]
           /\ SubSeq(tx'[2], 5, 8) = <<"0","0","1","2">>
    /\ pc = "raised" => (StartsCall /\ reads' = 0 /\ Len(tx') <= 1)

\* C11: within one call every request is written once, however many frames
\* expect_response discards: a step of expect_response that reads writes
\* nothing, the only write while a call is waiting is the power-usage
\* request get_power_usage sends after calibrate has returned, and after an
\* error has left a call the next read or write is that of another call
C11_NoRequestRetry == [][C11_Step]_vars

\* C11 witness: get_info has discarded two frames and written one request
C11_Witness ==
    /\ op.name = "get_info" /\ pc = "awaiting" /\ discards = 2 /\ Len(tx) = 1

\* the raw number in the log address slot of an info frame
RawLogAddr(frame) == HexNumber(SubSeq(frame, 37, 44))

\* what C12 says the decoded log address v is for the raw number r
SlotOrSurfaced(r, v) ==
    IF (r - 278528) % 32 = 0
    THEN v = IntV((r - 278528) \div 32)
    ELSE v.t # "int"

\* C12 (as claimed): the log address decoded from an info frame is
\* (r - 278528) / 32 when that is a whole number, and is no integer when
\* it is not
C12_LogAddrDecode ==
    (HasRead /\ resp.cls = "PlugwiseInfoResponse" /\ lastExc = "none"
       /\ Len(lastFrame) = 76)
        => SlotOrSurfaced(RawLogAddr(lastFrame), resp.objs[2].val)

\* C12 witness: get_info has returned a response whose log address is 0,
\* decoded from the raw number 278545
C12_Witness ==
    /\ HasRead /\ op.name = "get_info" /\ pc = "returned"
    /\ RawLogAddr(lastFrame) = 278545
    /\ resp.objs[2].val = IntV(0)

\* The CRC-16 as the division it is defined by: the bits of the message,
\* most significant first, followed by 16 zero bits, are divided by
\* x^16 + x^12 + x^5 + 1; reg is the remainder so far, bit the next bit
DivideBit(reg, bit) ==
    IF ((reg \div 32768) + bit) % 2 = 1
    THEN BitXor((reg * 2) % 65536, 4129)
    ELSE (reg * 2) % 65536

RECURSIVE DivideBits(_, _, _)
\* the k low bits of byte, the highest first
DivideBits(reg, byte, k) ==
    IF k = 0 \/ reg \notin 0..65535 THEN reg
    ELSE DivideBits(DivideBit(reg, (byte \div (2 ^ (k - 1))) % 2), byte, k - 1)

RECURSIVE Remainder(_, _)
Remainder(reg, s) ==
    IF s = <<>> \/ reg \notin 0..65535 THEN reg
    ELSE Remainder(DivideBits(reg, Ord(Head(s)), 8), Tail(s))

\* n in 0..65535 as four upper-case hexadecimal digits
FourHex(n) ==
    << HexDigits[(n \div 4096) + 1], HexDigits[((n \div 256) % 16) + 1],
       HexDigits[((n \div 16) % 16) + 1], HexDigits[(n % 16) + 1] >>

\* what stands between the header and the checksum of a frame
BodyOfFrame(frame) == SubSeq(frame, 5, Len(frame) - 6)

\* the checksum of a frame: the four characters before the footer
ChecksumOfFrame(frame) == SubSeq(frame, Len(frame) - 5, Len(frame) - 2)

\* the remainder for the body of every request the client can write
ExpectedChecksum ==
    [body \in {BodyOfFrame(Serialized[req]) : req \in Requests}
        |-> FourHex(Remainder(0, body))]

\* the check value of the CRC-16 with polynomial 0x11021, initial value 0,
\* no reflection and no final xor, for the text 123456789, is 0x31C3
CheckValue == crc_fun(<<"1","2","3","4","5","6","7","8","9">>)

\* C13: in every frame written the four characters before the footer are
\* the CRC-16 (polynomial 0x11021, initial value 0, not reflected, no final
\* xor) of the characters between header and checksum, as four upper-case
\* hexadecimal digits, and its footer follows; the checksum is a function
\* of the body
C13_Checksum ==
    /\ CheckValue = 12739
    /\ \A i \in 1..Len(tx) :
          /\ BodyOfFrame(tx[i]) \in DOMAIN ExpectedChecksum
          /\ ChecksumOfFrame(tx[i]) = ExpectedChecksum[BodyOfFrame(tx[i])]
          /\ SubSeq(tx[i], Len(tx[i]) - 1, Len(tx[i])) = <<"CR", "LF">>

\* C13 witness: calibrate on the Circle ABC has written a frame whose
\* checksum, 0x0C88, is padded with a zero
C13_Witness ==
    /\ op.name = "calibrate" /\ op.mac = MacShort /\ Len(tx) = 1
    /\ BodyOfFrame(tx[1]) = <<"0","0","2","6","A","B","C">>
    /\ ChecksumOfFrame(tx[1]) = <<"0","C","8","8">>

\* frame is sample with other characters in the checksum position
OnlyChecksumDiffers(frame, sample) ==
    /\ Len(frame) = Len(sample)
    /\ \A i \in 1..Len(frame) :
          (i < Len(frame) - 5 \/ i > Len(frame) - 2) => frame[i] = sample[i]
    /\ ChecksumOfFrame(frame) # ChecksumOfFrame(sample)

\* C14: a frame that is a well-formed frame of the awaited class but for
\* the four characters in its checksum position is accepted: the call has
\* returned, no error was raised and the response holds the frame's values
C14_ChecksumNotVerified ==
    \A which \in {"A", "B"} :
        (HasRead /\ OnlyChecksumDiffers(lastFrame, GoodTable[resp.cls][which])) =>
            /\ lastExc = "none"
            /\ pc = "returned"
            /\ exc = "none"
            /\ HoldsSample(which)

\* C14 witness: get_clock has returned the time of a frame whose checksum
\* position holds ZZZZ
C14_Witness ==
    /\ HasRead /\ op.name = "get_clock" /\ pc = "returned"
    /\ ChecksumOfFrame(lastFrame) = <<"Z","Z","Z","Z">>
    /\ OnlyChecksumDiffers(lastFrame, GoodTable[resp.cls]["A"])
    /\ ret = <<TimeV(10, 30, 45)>>

\* the parameter slots of frame, from byte 28 on, are those of sample
SameParameters(frame, sample) ==
    /\ Len(frame) = Len(sample)
    /\ SubSeq(frame, 29, Len(frame) - 6) = SubSeq(sample, 29, Len(sample) - 6)

\* the objects of the response after hold the values in the slots of the
\* sample frame whose parameters frame has
HoldsSlices(after, frame) ==
    \A which \in {"A", "B"} :
        SameParameters(frame, GoodTable[after.cls][which]) =>
            /\ Len(after.objs) = Len(SampleValues(after.cls, which))
            /\ \A i \in 1..Len(after.objs) :
                  after.objs[i].val = SampleValues(after.cls, which)[i]

\* what C15 says unserialize does with frame: e is what it raised, before
\* and after are the response object before and after
ValidationOrder(before, after, frame, e) ==
    IF Len(frame) # 34 + SumSeq(DeclaredLengths(before.cls))
    THEN e = "length" /\ after = before
    ELSE IF SubSeq(frame, 1, 4) # <<"x05", "x05", "x03", "x03">>
    THEN e = "header" /\ after = before
    ELSE IF frame \in BadFieldTable[before.cls]
    THEN e \in {"ValueError", "TypeError"}
    ELSE /\ e = (IF SubSeq(frame, Len(frame) - 1, Len(frame)) = <<"CR", "LF">>
                 THEN "none" ELSE "footer")
         /\ HoldsSlices(after, frame)

\* C15: unserialize checks the length, then the header, then decodes the
\* parameters, then checks the footer, and reports the first failure; a
\* length or header failure leaves the response as it was; the parameters
\* get the slots from byte 28 on, each of its declared width, and have
\* them even when the footer then fails
C15_ValidationOrder ==
    [][(reads' = reads + 1) => ValidationOrder(resp, resp', lastFrame', lastExc')]_vars

\* C15 witness: a frame with a broken footer was discarded for its footer
\* and the response holds the values of its parameters
C15_Witness ==
    /\ HasRead /\ lastExc = "footer" /\ pc = "awaiting" /\ HoldsSample("B")
    /\ resp.cls = "PlugwisePowerUsageResponse"
    /\ SameParameters(lastFrame, GoodTable[resp.cls]["B"])

\* the day d is a day of month mo of year y
DayExists(y, mo, d) ==
    /\ mo \in 1..12 /\ d >= 1
    /\ d <= (IF mo = 2 THEN (IF (y % 4 = 0 /\ y % 100 # 0) \/ y % 400 = 0 THEN 29 ELSE 28)
             ELSE IF mo \in {4, 6, 9, 11} THEN 30 ELSE 31)

\* the day, hour and minute DateTime.unserialize computes are m // 1440,
\* (m % 1440) // 60 and m % 60, for every m of four hexadecimal digits
SplitAgrees ==
    \A m \in 0..65535 :
        DateTimeSplit(m)
          = [days |-> m \div 1440, hours |-> (m % 1440) \div 60, minutes |-> m % 60]

\* what C16 says of the decoding of year offset yo, month mo and minutes m:
\* e is what unserialize raised and v the value of the field afterwards
DecodesTo(yo, mo, m, e, v) ==
    DayExists(yo + 2000, mo, m \div 1440) =>
        /\ e = "none"
        /\ v = DateTimeV(yo + 2000, mo, m \div 1440, (m % 1440) \div 60, m % 60)

\* C16: for every minutes-of-month m in 0..65535 the day, hour and minute
\* DateTime.unserialize computes are m // 1440, (m % 1440) // 60 and
\* m % 60, and when that day is a day of the month of the info frame read
\* the field's value is the datetime of the year offset + 2000, the month
\* and those three
C16_DateTimeDecode ==
    /\ SplitAgrees
    /\ (HasRead /\ Len(lastFrame) = 76) =>
          DecodesTo(HexNumber(SubSeq(lastFrame, 29, 30)),
                    HexNumber(SubSeq(lastFrame, 31, 32)),
                    HexNumber(SubSeq(lastFrame, 33, 36)),
                    lastExc, resp.objs[1].val)

\* C16 witness: minute 46079 of December 2255, the 31st at 23:59, was
\* decoded
C16_Witness ==
    /\ HasRead /\ pc = "returned"
    /\ SubSeq(lastFrame, 29, 36) = <<"F","F","0","C","B","3","F","F">>
    /\ resp.objs[1].val = DateTimeV(2255, 12, 31, 23, 59)

\* none of the four coefficients of c is set
NoneSet(c) ==
    c.gain_a = NoneV /\ c.gain_b = NoneV /\ c.off_ruis = NoneV /\ c.off_tot = NoneV

\* the four coefficients of c are those of one calibration frame: its
\* parameters are gain_a, gain_b, off_tot, off_ruis
AllSetFrom(c, which) ==
    /\ c.gain_a = SampleValues("PlugwiseCalibrationResponse", which)[1]
    /\ c.gain_b = SampleValues("PlugwiseCalibrationResponse", which)[2]
    /\ c.off_tot = SampleValues("PlugwiseCalibrationResponse", which)[3]
    /\ c.off_ruis = SampleValues("PlugwiseCalibrationResponse", which)[4]

\* frame is a request with function code id
IsRequest(frame, id) == SubSeq(frame, 5, 8) = id

\* what C17 says of one step
C17_Step ==
    /\ circle'.made =>
          (NoneSet(circle') \/ \E which \in {"A", "B"} : AllSetFrom(circle', which))
    /\ (op'.name = "get_power_usage" /\ nops' = nops + 1) =>
          /\ Len(tx') = 1
          /\ IF circle.gain_a = NoneV
             THEN /\ IsRequest(tx'[1], <<"0","0","2","6">>)
                  /\ cont' = "get_power_usage.calibrate"
             ELSE /\ IsRequest(tx'[1], <<"0","0","1","2">>)
                  /\ cont' = "get_power_usage"
    /\ (op.name = "get_power_usage" /\ pc = "awaiting" /\ tx' # tx) =>
          /\ Len(tx) = 1 /\ IsRequest(tx[1], <<"0","0","2","6">>)
          /\ Len(tx') = 2 /\ tx'[1] = tx[1] /\ IsRequest(tx'[2], <<"0","0","1","2">>)
          /\ NoneSet(circle) /\ ~NoneSet(circle')
    /\ (pc = "awaiting" /\ pc' = "raised" /\ circle.made) => circle' = circle
    /\ (circle' # circle /\ circle.made) =>
          /\ pc = "awaiting" /\ cont \in {"calibrate", "get_power_usage.calibrate"}
          /\ ~NoneSet(circle')

\* C17: get_power_usage writes the calibration request first, and the
\* power-usage request only after the calibration response has set the
\* coefficients, when gain_a is None at its start, and writes the
\* power-usage request alone otherwise; the four coefficients of a Circle
\* are all None or all those of one calibration response, and a call that
\* raises leaves them as they were
C17_CalibrateOnce == [][C17_Step]_vars

\* C17 witness: the second get_power_usage of a Circle, calibrated by the
\* first, has returned having written the power-usage request alone
C17_Witness ==
    /\ op.name = "get_power_usage" /\ nops = 2 /\ pc = "returned"
    /\ Len(tx) = 1 /\ IsRequest(tx[1], <<"0","0","1","2">>)
    /\ AllSetFrom(circle, "B")

\* the response object a fresh object of the class becomes by this frame
\* alone
FromFrameAlone(cls, frame) == unserialize(NewResponse(cls), frame).resp

\* C18: the response expect_response returns, the one object all its reads
\* decoded into, is what a fresh object becomes by the accepted frame
\* alone, whatever the frames discarded before, and holds the values in
\* that frame's slots
C18_NoStaleFields ==
    (HasRead /\ lastExc = "none") =>
        /\ resp = FromFrameAlone(resp.cls, lastFrame)
        /\ HoldsSlices(resp, lastFrame)

\* C18 witness: get_info discarded one frame and then returned, in the
\* same response object, the values of the next
C18_Witness ==
    /\ HasRead /\ op.name = "get_info" /\ pc = "returned" /\ discards = 1 /\ reads = 2
    /\ lastFrame = GoodTable[resp.cls]["A"]
    /\ resp.objs[5].val = StrV(<<"0","0","0","0","0","0","7","3","0","0","0","7">>)

====
